---------------------------- MODULE Spec2Model ----------------------------
(***************************************************************************)
(* check_validator_setup: the run of main() of src/main.go as a state     *)
(* machine, and its four endpoint probes as operators.                     *)
(*                                                                         *)
(* A Go string that is lower-cased, folded or formatted is a sequence of  *)
(* text fragments ("ab" is <<"a","b">>, "" is <<>>); names and --only are *)
(* spelled with ASCII letters.  Strings only compared for equality        *)
(* (output, the API tags) are TLA+ strings.  An error value is the        *)
(* record [isNil, msg]; err.Error() is its msg.  A duration is a natural   *)
(* number of seconds.  buf is the embedded configuration document that     *)
(* --testnet selected: it parses to a roster or does not parse.            *)
(* The network is the environment: each probe meets one reply, drawn      *)
(* from a set of replies; a "silent" peer never answers.                   *)
(***************************************************************************)
EXTENDS Integers, Sequences, FiniteSets, TLC

VARIABLES
    argOnly,      \* the --only flag as typed (never written after start)
    only,         \* var only (main.go:39), lower-cased at line 76
    output,       \* var output (main.go:40)
    buf,          \* the selected embedded configuration document
    isJsonOutput, \* main.go:79
    cfg,          \* cfg.Validators (main.go:89), a sequence of [Name]
    bar,          \* main.go:109: Nil or [total, ticks]
    res,          \* main.go:118
    idx,          \* position of the range loop of main.go:120
    newRes,       \* main.go:125
    errStr,       \* main.go:129
    pending,      \* the reply the check call in progress meets, or NoReply
    dispatched,   \* log of the check calls made: <<validator index, call>>
    returned,     \* log of what each check call returned: [d, err]
    rendered,     \* what was written to stdout: [kind, rs]
    pc,           \* position of main()
    call,         \* probe specification: the check function applied
    reply,        \* probe specification: the reply it received
    result        \* probe specification: what it returned

vars == <<argOnly, only, output, buf, isJsonOutput, cfg, bar, res, idx, newRes,
          errStr, pending, dispatched, returned, rendered, pc, call, reply,
          result>>

runVars == <<argOnly, only, output, buf, isJsonOutput, cfg, bar, res, idx,
             newRes, errStr, pending, dispatched, returned, rendered, pc>>

probeVars == <<call, reply, result>>

----------------------------------------------------------------------------
(* Bounds and constants *)

\* longest roster of a configuration document
MaxRoster == 2

\* timeout = 2 * time.Second
timeout == 2

EmptyString == <<>>

\* the nil error
Nil == [isNil |-> TRUE, msg |-> EmptyString]

\* the nil *progressbar.ProgressBar
NilBar == [created |-> FALSE, total |-> 0, ticks |-> 0]

\* nothing written to stdout yet
NoRender == [kind |-> "none", rs |-> <<>>]

----------------------------------------------------------------------------
(* strings.ToLower and strings.EqualFold over the letters in use *)

Lower == {"a", "b", "d"}

Upper == {"A", "B", "D"}

Alphabet == Lower \cup Upper

\* unicode.ToLower on one letter
ToLowerRune(r) ==
    CASE r = "A" -> "a"
      [] r = "B" -> "b"
      [] r = "D" -> "d"
      [] OTHER -> r

\* unicode.SimpleFold on one letter: the next letter of its folding orbit
SimpleFold(r) ==
    CASE r = "A" -> "a"
      [] r = "B" -> "b"
      [] r = "D" -> "d"
      [] r = "a" -> "A"
      [] r = "b" -> "B"
      [] r = "d" -> "D"
      [] OTHER -> r

ToLower(s) == [i \in 1..Len(s) |-> ToLowerRune(s[i])]

\* the rune comparison of strings.EqualFold: equal, or reached from the
\* other by walking the folding orbit
RECURSIVE OrbitReaches(_, _, _, _)
OrbitReaches(r, sr, tr, fuel) ==
    IF r = tr THEN TRUE
    ELSE IF r = sr \/ fuel = 0 THEN FALSE
    ELSE OrbitReaches(SimpleFold(r), sr, tr, fuel - 1)

RuneFoldEq(sr, tr) ==
    sr = tr \/ OrbitReaches(SimpleFold(sr), sr, tr, Cardinality(Alphabet))

EqualFold(s, t) ==
    /\ Len(s) = Len(t)
    /\ \A i \in 1..Len(s) : RuneFoldEq(s[i], t[i])


----------------------------------------------------------------------------
(* Errors and their messages *)

Err(m) == [isNil |-> FALSE, msg |-> m]

\* err.Error()
ErrorString(err) == err.msg

DigitChar == <<"0", "1", "2", "3", "4", "5", "6", "7", "8", "9">>

\* fmt's %v of a non-negative int: its decimal digits
RECURSIVE Itoa(_)
Itoa(n) ==
    IF n < 10 THEN <<DigitChar[n + 1]>>
    ELSE Itoa(n \div 10) \o <<DigitChar[(n % 10) + 1]>>

\* fmt.Errorf("unexpected http status code: %v", resp.StatusCode)
StatusError(code) == Err(<<"unexpected http status code: ">> \o Itoa(code))

DialError == Err(<<"grpc: dial failed">>)

RPCError == Err(<<"rpc error: code = Unavailable">>)

DeadlineError == Err(<<"context deadline exceeded">>)

URLError == Err(<<"parse: invalid URL">>)

TransportError == Err(<<"dial tcp: connection refused">>)

----------------------------------------------------------------------------
(* The replies of the network *)

\* http.StatusOK
StatusOK == 200

StatusCodes == {200, 201, 204, 301, 400, 404, 500, 503}

Bodies == {"", "{\"data\":{}}", "{\"errors\":[]}"}

Elapsed == 0..timeout

Reply(k, e, s, b) == [kind |-> k, elapsed |-> e, status |-> s, body |-> b]

NoReply == Reply("none", 0, 0, "")

GRPCReplies ==
    {Reply("dialErr", 0, 0, "")}
    \cup {Reply(k, e, 0, "") : k \in {"ok", "rpcErr"}, e \in Elapsed}
    \cup {Reply("silent", 0, 0, "")}

HTTPReplies ==
    {Reply(k, e, 0, "") : k \in {"badURL", "transportErr"}, e \in Elapsed}
    \cup {Reply("silent", 0, 0, "")}
    \cup {Reply("response", e, s, b) : e \in Elapsed, s \in StatusCodes, b \in Bodies}

----------------------------------------------------------------------------
(* The four probes: each returns [d, err] *)

Ret(d, e) == [d |-> d, err |-> e]

checkGRPC(r) ==
    IF r.kind = "dialErr" THEN Ret(0, DialError)
    ELSE IF r.kind = "silent" THEN Ret(timeout, DeadlineError)
    ELSE Ret(r.elapsed, IF r.kind = "ok" THEN Nil ELSE RPCError)

checkGRPCDN(r) ==
    IF r.kind = "dialErr" THEN Ret(0, DialError)
    ELSE IF r.kind = "silent" THEN Ret(timeout, DeadlineError)
    ELSE Ret(r.elapsed, IF r.kind = "ok" THEN Nil ELSE RPCError)

checkREST(r) ==
    IF r.kind = "badURL" THEN Ret(0, URLError)
    ELSE IF r.kind = "transportErr" THEN Ret(r.elapsed, TransportError)
    ELSE IF r.kind = "silent" THEN Ret(timeout, DeadlineError)
    ELSE IF r.status # StatusOK THEN Ret(r.elapsed, StatusError(r.status))
    ELSE Ret(r.elapsed, Nil)

\* fault: any 2xx status taken for success
checkGQLAny2xx(r) ==
    IF r.kind = "badURL" THEN Ret(r.elapsed, URLError)
    ELSE IF r.kind = "transportErr" THEN Ret(r.elapsed, TransportError)
    ELSE IF r.kind = "silent" THEN Ret(timeout, DeadlineError)
    ELSE IF r.status \div 100 # 2 THEN Ret(r.elapsed, StatusError(r.status))
    ELSE Ret(r.elapsed, Nil)

checkGQL(r) ==
    IF r.kind = "badURL" THEN Ret(r.elapsed, URLError)
    ELSE IF r.kind = "transportErr" THEN Ret(r.elapsed, TransportError)
    ELSE IF r.kind = "silent" THEN Ret(timeout, DeadlineError)
    ELSE IF r.status # StatusOK THEN Ret(r.elapsed, StatusError(r.status))
    ELSE Ret(r.elapsed, Nil)

Calls == <<"checkGRPC", "checkGRPCDN", "checkREST", "checkGQL">>

\* the call made at each of the four probe sites of main()
Check(c, r) ==
    CASE c = "checkGRPC" -> checkGRPC(r)
      [] c = "checkGRPCDN" -> checkGRPCDN(r)
      [] c = "checkREST" -> checkREST(r)
      [] OTHER -> checkGQL(r)


----------------------------------------------------------------------------
(* The inputs of a run of main() *)

Names == {<<"a", "b">>, <<"A", "b">>, <<"a">>}

OnlyValues == {EmptyString, <<"a", "b">>, <<"A", "B">>, <<"a">>, <<"d">>}

Outputs == {"human", "json", "xml"}

Validators == {[Name |-> n] : n \in Names}

\* a roster spells no name twice; names may still be equal up to case
Rosters ==
    {r \in UNION {[1..n -> Validators] : n \in 0..MaxRoster} :
        \A i, j \in 1..Len(r) : i # j => r[i] # r[j]}

\* the embedded documents: one that does not parse, and one per roster
Docs ==
    {[ok |-> FALSE, validators |-> <<>>]}
    \cup {[ok |-> TRUE, validators |-> r] : r \in Rosters}

\* the replies a probe receives in a run of main(): one success and one
\* failure per probe site
RunReplies(c) ==
    CASE c = "checkGRPC" ->
           {Reply("ok", 1, 0, ""), Reply("silent", 0, 0, "")}
      [] c = "checkGRPCDN" ->
           {Reply("ok", 1, 0, ""), Reply("dialErr", 0, 0, "")}
      [] c = "checkREST" ->
           {Reply("response", 1, 200, ""), Reply("response", 1, 500, "")}
      [] OTHER ->
           {Reply("response", 1, 200, "{\"errors\":[]}"),
            Reply("transportErr", 0, 0, "")}

----------------------------------------------------------------------------
(* Helpers of main() *)

\* fault: the default case of the switch does not end the process
SwitchOutputNoDefault(o) ==
    CASE o = "json" -> [fatal |-> FALSE, json |-> TRUE]
      [] OTHER -> [fatal |-> FALSE, json |-> FALSE]

\* the switch on output
SwitchOutput(o) ==
    CASE o = "human" -> [fatal |-> FALSE, json |-> FALSE]
      [] o = "json" -> [fatal |-> FALSE, json |-> TRUE]
      [] OTHER -> [fatal |-> TRUE, json |-> FALSE]

\* json.Unmarshal(buf, &cfg)
Unmarshal(b) ==
    IF b.ok THEN [err |-> Nil, validators |-> b.validators]
    ELSE [err |-> Err(<<"invalid character">>), validators |-> <<>>]

\* the loop that sets exists
Exists(o, vs) == \E i \in 1..Len(vs) : EqualFold(o, vs[i].Name)

\* the argument of progressbar.Default
BarTotal(o, vs) == IF Len(o) > 0 THEN 4 ELSE Len(vs) * 4

\* the continue of the range loop
Skip(o, v) == Len(o) > 0 /\ ~EqualFold(o, v.Name)

\* fault: errStr is not reset before the probe
ErrStrNoReset(prev, err) == IF ~err.isNil THEN ErrorString(err) ELSE prev

\* errStr after "errStr = ..." and the err check that follows a probe
ErrStr(prev, err) ==
    LET reset == EmptyString
    IN IF ~err.isNil THEN ErrorString(err) ELSE reset

\* fault: the data-node block keeps the literal of the block it was copied from
TagCopyPaste(c) ==
    CASE c = "checkGRPC" -> "core"
      [] c = "checkGRPCDN" -> "core"
      [] c = "checkREST" -> "rest"
      [] OTHER -> "gql"

\* the API literal of the aPIResult appended after each call
Tag(c) ==
    CASE c = "checkGRPC" -> "core"
      [] c = "checkGRPCDN" -> "datanode"
      [] c = "checkREST" -> "rest"
      [] OTHER -> "gql"

\* the statement that follows each probe block
NextSite(c) ==
    CASE c = "checkGRPC" -> "checkGRPCDN"
      [] c = "checkGRPCDN" -> "checkREST"
      [] c = "checkREST" -> "checkGQL"
      [] OTHER -> "append"

\* fault: a failed probe ends the validator's iteration
AfterAbortOnError(c, ret) == IF ~ret.err.isNil THEN "append" ELSE NextSite(c)

\* where main() goes after the block of call c, whatever c returned
After(c, ret) == NextSite(c)

\* fault: the call runs under context.Background(), without a deadline
BlocksOnSilence(c, r) == r.kind = "silent"

\* whether call c, having met reply r, never returns: it is bounded by
\* context.WithTimeout(context.Background(), timeout)
Blocks(c, r) == FALSE

\* fault: the new result is put in front
PrependRes(rs, r) == <<r>> \o rs

\* res = append(res, newRes)
AppendRes(rs, r) == Append(rs, r)

\* fault: the table is printed in every mode
RendererAlwaysTable(o) == "table"

\* the choice of renderer
Renderer(o) == IF o = "human" THEN "table" ELSE "json"


----------------------------------------------------------------------------
(* main() *)

Init ==
    /\ argOnly \in OnlyValues
    /\ only = argOnly
    /\ output \in Outputs
    /\ buf \in Docs
    /\ isJsonOutput = FALSE
    /\ cfg = <<>>
    /\ bar = NilBar
    /\ res = <<>>
    /\ idx = 1
    /\ newRes = [Name |-> EmptyString, APIResults |-> <<>>]
    /\ errStr = EmptyString
    /\ pending = NoReply
    /\ dispatched = <<>>
    /\ returned = <<>>
    /\ rendered = NoRender
    /\ pc = "flags"
    /\ call = "none"
    /\ reply = NoReply
    /\ result = Ret(0, Nil)

\* flag.Parse and the lower-casing of only
ParseFlags ==
    /\ pc = "flags"
    /\ only' = IF Len(only) > 0 THEN ToLower(only) ELSE only
    /\ pc' = "output"
    /\ UNCHANGED <<argOnly, output, buf, isJsonOutput, cfg, bar, res, idx,
                   newRes, errStr, pending, dispatched, returned, rendered>>
    /\ UNCHANGED probeVars

\* the switch on output; log.Fatalf on an unknown value
CheckOutput ==
    /\ pc = "output"
    /\ LET sw == SwitchOutput(output)
       IN /\ isJsonOutput' = sw.json
          /\ pc' = IF sw.fatal THEN "fatal" ELSE "config"
    /\ UNCHANGED <<argOnly, only, output, buf, cfg, bar, res, idx, newRes,
                   errStr, pending, dispatched, returned, rendered>>
    /\ UNCHANGED probeVars

\* json.Unmarshal of the document; log.Fatalf when it does not parse
LoadConfig ==
    /\ pc = "config"
    /\ LET u == Unmarshal(buf)
       IN /\ cfg' = u.validators
          /\ pc' = IF ~u.err.isNil THEN "fatal" ELSE "validate"
    /\ UNCHANGED <<argOnly, only, output, buf, isJsonOutput, bar, res, idx,
                   newRes, errStr, pending, dispatched, returned, rendered>>
    /\ UNCHANGED probeVars

\* "validate only is a correct validator if specified"
ValidateOnly ==
    /\ pc = "validate"
    /\ pc' = IF Len(only) > 0 /\ ~Exists(only, cfg) THEN "fatal" ELSE "bar"
    /\ UNCHANGED <<argOnly, only, output, buf, isJsonOutput, cfg, bar, res,
                   idx, newRes, errStr, pending, dispatched, returned,
                   rendered>>
    /\ UNCHANGED probeVars

\* the progress bar of human output, and res := []results{}
CreateBar ==
    /\ pc = "bar"
    /\ bar' = IF ~isJsonOutput
              THEN [created |-> TRUE, total |-> BarTotal(only, cfg), ticks |-> 0]
              ELSE NilBar
    /\ res' = <<>>
    /\ idx' = 1
    /\ pc' = "loop"
    /\ UNCHANGED <<argOnly, only, output, buf, isJsonOutput, cfg, newRes,
                   errStr, pending, dispatched, returned, rendered>>
    /\ UNCHANGED probeVars

\* an iteration that hits the continue
LoopSkip ==
    /\ pc = "loop"
    /\ idx <= Len(cfg)
    /\ Skip(only, cfg[idx])
    /\ idx' = idx + 1
    /\ UNCHANGED <<argOnly, only, output, buf, isJsonOutput, cfg, bar, res,
                   newRes, errStr, pending, dispatched, returned, rendered,
                   pc>>
    /\ UNCHANGED probeVars

\* an iteration that probes: newRes := results{Name: v.Name}
LoopEnter ==
    /\ pc = "loop"
    /\ idx <= Len(cfg)
    /\ ~Skip(only, cfg[idx])
    /\ newRes' = [Name |-> cfg[idx].Name, APIResults |-> <<>>]
    /\ pc' = "checkGRPC"
    /\ UNCHANGED <<argOnly, only, output, buf, isJsonOutput, cfg, bar, res,
                   idx, errStr, pending, dispatched, returned, rendered>>
    /\ UNCHANGED probeVars

\* the range is exhausted
LoopExit ==
    /\ pc = "loop"
    /\ idx > Len(cfg)
    /\ pc' = "render"
    /\ UNCHANGED <<argOnly, only, output, buf, isJsonOutput, cfg, bar, res,
                   idx, newRes, errStr, pending, dispatched, returned,
                   rendered>>
    /\ UNCHANGED probeVars

\* main() calls check function c and blocks in it; the network decides
\* what the call meets
Dispatch(c) ==
    /\ pc = c
    /\ pending = NoReply
    /\ \E r \in RunReplies(c) : pending' = r
    /\ dispatched' = Append(dispatched, <<idx, c>>)
    /\ UNCHANGED <<argOnly, only, output, buf, isJsonOutput, cfg, bar, res,
                   idx, newRes, errStr, returned, rendered, pc>>
    /\ UNCHANGED probeVars

\* check function c returns; its outcome is appended and the bar advanced
Complete(c) ==
    /\ pc = c
    /\ pending # NoReply
    /\ ~Blocks(c, pending)
    /\ LET ret == Check(c, pending)
           str == ErrStr(errStr, ret.err)
       IN /\ errStr' = str
          /\ newRes' = [newRes EXCEPT !.APIResults =
                          Append(@, [API |-> Tag(c), TimeTaken |-> ret.d,
                                     Error |-> str])]
          /\ returned' = Append(returned, ret)
          /\ IF ~isJsonOutput
             THEN IF bar.created
                  THEN /\ bar' = [bar EXCEPT !.ticks = @ + 1]
                       /\ pc' = After(c, ret)
                  ELSE /\ bar' = bar
                       /\ pc' = "panic"
             ELSE /\ bar' = bar
                  /\ pc' = After(c, ret)
    /\ pending' = NoReply
    /\ UNCHANGED <<argOnly, only, output, buf, isJsonOutput, cfg, res, idx,
                   dispatched, rendered>>
    /\ UNCHANGED probeVars

DispatchCore == Dispatch("checkGRPC")

CompleteCore == Complete("checkGRPC")

DispatchDataNode == Dispatch("checkGRPCDN")

CompleteDataNode == Complete("checkGRPCDN")

DispatchREST == Dispatch("checkREST")

CompleteREST == Complete("checkREST")

DispatchGQL == Dispatch("checkGQL")

CompleteGQL == Complete("checkGQL")

\* res = append(res, newRes), and the next iteration
Accumulate ==
    /\ pc = "append"
    /\ res' = AppendRes(res, newRes)
    /\ idx' = idx + 1
    /\ pc' = "loop"
    /\ UNCHANGED <<argOnly, only, output, buf, isJsonOutput, cfg, bar, newRes,
                   errStr, pending, dispatched, returned, rendered>>
    /\ UNCHANGED probeVars

\* printResults(res), or the JSON array on stdout
Render ==
    /\ pc = "render"
    /\ rendered' = [kind |-> Renderer(output), rs |-> res]
    /\ pc' = "done"
    /\ UNCHANGED <<argOnly, only, output, buf, isJsonOutput, cfg, bar, res,
                   idx, newRes, errStr, pending, dispatched, returned>>
    /\ UNCHANGED probeVars

Next ==
    \/ ParseFlags
    \/ CheckOutput
    \/ LoadConfig
    \/ ValidateOnly
    \/ CreateBar
    \/ LoopSkip
    \/ LoopEnter
    \/ LoopExit
    \/ DispatchCore
    \/ CompleteCore
    \/ DispatchDataNode
    \/ CompleteDataNode
    \/ DispatchREST
    \/ CompleteREST
    \/ DispatchGQL
    \/ CompleteGQL
    \/ Accumulate
    \/ Render

Spec == Init /\ [][Next]_vars

\* main() is one goroutine that keeps running, and every check call returns
\* (by response, by error or by its context deadline)
FairSpec == Spec /\ WF_vars(Next)

----------------------------------------------------------------------------
(* The probes on their own: each check function applied to every reply *)

InitProbe ==
    /\ argOnly = EmptyString
    /\ only = EmptyString
    /\ output = "human"
    /\ buf = [ok |-> TRUE, validators |-> <<>>]
    /\ isJsonOutput = FALSE
    /\ cfg = <<>>
    /\ bar = NilBar
    /\ res = <<>>
    /\ idx = 1
    /\ newRes = [Name |-> EmptyString, APIResults |-> <<>>]
    /\ errStr = EmptyString
    /\ pending = NoReply
    /\ dispatched = <<>>
    /\ returned = <<>>
    /\ rendered = NoRender
    /\ pc = "probe"
    /\ call = "none"
    /\ reply = NoReply
    /\ result = Ret(0, Nil)

CallGRPC ==
    /\ \E r \in GRPCReplies :
         /\ reply' = r
         /\ result' = checkGRPC(r)
    /\ call' = "checkGRPC"
    /\ UNCHANGED runVars

CallGRPCDN ==
    /\ \E r \in GRPCReplies :
         /\ reply' = r
         /\ result' = checkGRPCDN(r)
    /\ call' = "checkGRPCDN"
    /\ UNCHANGED runVars

CallREST ==
    /\ \E r \in HTTPReplies :
         /\ reply' = r
         /\ result' = checkREST(r)
    /\ call' = "checkREST"
    /\ UNCHANGED runVars

CallGQL ==
    /\ \E r \in HTTPReplies :
         /\ reply' = r
         /\ result' = checkGQL(r)
    /\ call' = "checkGQL"
    /\ UNCHANGED runVars

NextProbe == CallGRPC \/ CallGRPCDN \/ CallREST \/ CallGQL

SpecProbe == InitProbe /\ [][NextProbe]_vars


----------------------------------------------------------------------------
(* Vocabulary of the properties *)

ApiOrder == <<"core", "datanode", "rest", "gql">>

TagsOf(r) == [j \in 1..Len(r.APIResults) |-> r.APIResults[j].API]

\* the run is at or past the rendering of res
AtRendering == pc \in {"render", "done"}

PreProbe == {"flags", "output", "config", "validate"}

\* name n is the name typed after --only, up to case
Matches(n) == EqualFold(argOnly, n)

\* the run has a configuration error, read off its inputs
ConfigError ==
    \/ output \notin {"human", "json"}
    \/ ~buf.ok
    \/ /\ Len(argOnly) > 0
       /\ \A i \in 1..Len(buf.validators) : ~Matches(buf.validators[i].Name)

NothingDone ==
    /\ dispatched = <<>>
    /\ returned = <<>>
    /\ bar.ticks = 0
    /\ rendered = NoRender

\* the j-th outcome recorded so far, in the order of recording
OutcomeAt(j) ==
    IF j <= 4 * Len(res)
    THEN res[((j - 1) \div 4) + 1].APIResults[((j - 1) % 4) + 1]
    ELSE newRes.APIResults[j - 4 * Len(res)]

\* the number of outcomes recorded so far
Recorded ==
    4 * Len(res)
    + (IF pc \in {"checkGRPC", "checkGRPCDN", "checkREST", "checkGQL", "append"}
       THEN Len(newRes.APIResults) ELSE 0)

\* the decimal number a digit string denotes
RECURSIVE Atoi(_)
Atoi(ds) ==
    IF ds = <<>> THEN 0
    ELSE 10 * Atoi(SubSeq(ds, 1, Len(ds) - 1))
         + (CHOOSE d \in 0..9 : DigitChar[d + 1] = ds[Len(ds)])

----------------------------------------------------------------------------
(* C1: every result appended to res holds exactly four outcomes, tagged   *)
(* core, datanode, rest, gql in this order, whatever the probes returned. *)
FourOutcomesInOrder ==
    \A i \in 1..Len(res) : TagsOf(res[i]) = ApiOrder

\* a result is appended whose probes partly failed and partly succeeded
FourOutcomesWitness ==
    /\ Len(res) >= 1
    /\ \E j \in 1..4 : res[1].APIResults[j].Error # EmptyString
    /\ \E j \in 1..4 : res[1].APIResults[j].Error = EmptyString

(* C2: without --only, at rendering res has one entry per roster          *)
(* validator, the i-th entry carrying the i-th validator's name.          *)
RosterOrder ==
    (AtRendering /\ Len(argOnly) = 0) =>
        /\ Len(res) = Len(cfg)
        /\ \A i \in 1..Len(cfg) : res[i].Name = cfg[i].Name
        /\ rendered.kind # "none" => rendered.rs = res

\* an unfiltered run over two differently named validators is rendered,
\* with a failed probe in it
RosterOrderWitness ==
    /\ pc = "done"
    /\ Len(argOnly) = 0
    /\ Len(cfg) = 2
    /\ cfg[1].Name # cfg[2].Name
    /\ \E j \in 1..Len(returned) : ~returned[j].err.isNil

(* C3: with --only naming (up to case) a validator of the roster, the     *)
(* result set handed to the renderer has exactly one entry, and it is     *)
(* that validator.                                                         *)
OnlyYieldsOneEntry ==
    ( /\ rendered.kind # "none"
      /\ Len(argOnly) > 0
      /\ \E i \in 1..Len(buf.validators) : Matches(buf.validators[i].Name) )
    => /\ Len(rendered.rs) = 1
       /\ Matches(rendered.rs[1].Name)

(* C4: a run with a configuration error ends in the fatal state before    *)
(* any probe is dispatched, any tick emitted or anything rendered.        *)
ConfigErrorIsFatalBeforeProbing ==
    /\ ConfigError => (pc \in PreProbe \cup {"fatal"} /\ NothingDone)
    /\ pc = "fatal" => NothingDone

\* --only names no validator of a non-empty roster, and the run is fatal
ConfigErrorWitness ==
    /\ pc = "fatal"
    /\ output \in {"human", "json"}
    /\ buf.ok
    /\ Len(buf.validators) > 0
    /\ Len(argOnly) > 0

(* C5: the bar's total is 4 times the number of validators probed, one    *)
(* tick follows each probe, and at the end the ticks equal the total.     *)
BarTotalMatchesTicks ==
    /\ bar.created => bar.ticks = Len(returned)
    /\ (bar.created /\ AtRendering) =>
          /\ bar.total = 4 * Len(res)
          /\ bar.ticks = bar.total

(* C6: a failed probe aborts nothing: the probes of every selected        *)
(* validator are dispatched once each, in the order core, data-node,      *)
(* REST, GraphQL, and the run goes on to the next validator and to        *)
(* rendering.                                                              *)
NoShortCircuit ==
    /\ \A j \in 1..Len(dispatched) :
         /\ dispatched[j][2] = Calls[((j - 1) % 4) + 1]
         /\ dispatched[j][1] = dispatched[4 * ((j - 1) \div 4) + 1][1]
         /\ j > 4 => dispatched[j - 4][1] < dispatched[j][1]
    /\ Len(dispatched) > 0 => pc \notin {"fatal", "panic"}
    /\ AtRendering =>
         /\ Len(dispatched) % 4 = 0
         /\ {dispatched[j][1] : j \in 1..Len(dispatched)}
              = {i \in 1..Len(cfg) : Len(argOnly) = 0 \/ Matches(cfg[i].Name)}

\* the first probe of the first of two probed validators failed, and the
\* run was rendered after all eight probes
NoShortCircuitWitness ==
    /\ pc = "done"
    /\ Len(dispatched) = 8
    /\ ~returned[1].err.isNil

(* C7: when the HTTP exchange of the REST or GraphQL probe returns a      *)
(* response, the probe returns no error exactly when the status is 200    *)
(* (whatever the body), and otherwise an error whose message carries the  *)
(* status code; the elapsed duration is returned in both cases.           *)
StatusDecidesHTTPProbe ==
    (call \in {"checkREST", "checkGQL"} /\ reply.kind = "response") =>
        /\ result.err.isNil <=> reply.status = 200
        /\ reply.status # 200 =>
             /\ Len(result.err.msg) > 1
             /\ Atoi(Tail(result.err.msg)) = reply.status
        /\ result.d = reply.elapsed

\* the GraphQL probe met a 500 response with a body
StatusDecidesWitness ==
    /\ call = "checkGQL"
    /\ reply.kind = "response"
    /\ reply.status = 500
    /\ reply.body # ""
    /\ ~result.err.isNil

(* C8: every recorded outcome is that of its own probe: its error is      *)
(* empty exactly when the probe returned no error and is the probe's      *)
(* message otherwise, and its duration is the one the probe returned.     *)
OutcomeIsOwnProbe ==
    /\ Recorded = Len(returned)
    /\ \A j \in 1..Len(returned) :
         /\ OutcomeAt(j).Error = EmptyString <=> returned[j].err.isNil
         /\ ~returned[j].err.isNil => OutcomeAt(j).Error = returned[j].err.msg
         /\ OutcomeAt(j).TimeTaken = returned[j].d

\* a probe succeeded right after one that failed, within a validator and
\* across two validators
OutcomeIsOwnProbeWitness ==
    /\ Len(returned) = 8
    /\ ~returned[1].err.isNil /\ returned[2].err.isNil
    /\ ~returned[4].err.isNil /\ returned[5].err.isNil
    /\ Recorded = 8

(* C9: every run with valid inputs reaches the rendering of res and       *)
(* ends; probes run one at a time, the next one dispatched only after     *)
(* the previous one returned and its outcome was recorded.                *)
OneAtATime ==
    /\ pending = NoReply => Len(dispatched) = Len(returned)
    /\ pending # NoReply => Len(dispatched) = Len(returned) + 1
    /\ Recorded = Len(returned)

RunTerminates ==
    /\ []OneAtATime
    /\ (~ConfigError) ~> (pc = "done" /\ rendered.kind # "none")

\* a probe is in progress while seven outcomes are recorded, one of them
\* a deadline
RunTerminatesWitness ==
    /\ pending # NoReply
    /\ Len(returned) = 7
    /\ \E j \in 1..7 : returned[j].d = timeout

(* C10: the bar exists exactly in human mode, a tick is added only to an  *)
(* existing bar, and the renderer is the table in human mode and the      *)
(* JSON array in json mode.                                                *)
OutputModeConsistent ==
    /\ pc \notin PreProbe \cup {"fatal", "bar"} => (bar.created <=> output = "human")
    /\ bar.ticks > 0 => bar.created
    /\ pc # "panic"
    /\ rendered.kind = "table" <=> (pc = "done" /\ output = "human")
    /\ rendered.kind = "json" <=> (pc = "done" /\ output = "json")

\* a json run is rendered after probing, without a bar
OutputModeWitness ==
    /\ pc = "done"
    /\ output = "json"
    /\ Len(returned) > 0
    /\ rendered.kind = "json"

============================================================================
